---------------------------- MODULE Spec2Model ----------------------------
(***************************************************************************)
(* A model of orpheus.py, the command-line front end of OrpheusDL:         *)
(* interactive_selection (candidate rows, external picker, fallback        *)
(* prompt, selection validation) and main (mode dispatch, search,          *)
(* download, URL routing, batch hand-off to orpheus_core_download).        *)
(*                                                                         *)
(* Text is modelled as a sequence of characters, each character a          *)
(* one-element string.  URL hosts and paths are sequences of tokens: "/"   *)
(* and "." are single characters, every other token stands for a run of    *)
(* characters that contains no separator.  An optional value (Python's     *)
(* None or a value) is a sequence of length 0 or 1.                        *)
(***************************************************************************)
EXTENDS Integers, Sequences, FiniteSets, TLC

(***************************************************************************)
(* Bounds of the model.                                                    *)
(***************************************************************************)
\* settings['global']['general']['search_limit']: most results of a search
MaxItems == 3
\* most links of one run (command line or file)
MaxLinks == 3

(***************************************************************************)
(* Characters and the string operations the program uses.                  *)
(***************************************************************************)
TAB == "\t"
NEWLINE == "\n"
\* U+2026, one character
ELLIPSIS == "..."
\* U+00B2: str.isdigit() accepts it, int() rejects it
SUPERSCRIPT_TWO == "^2"

Digits == <<"0", "1", "2", "3", "4", "5", "6", "7", "8", "9">>

DigitChars == {Digits[i] : i \in 1..10}

Whitespace == {" ", TAB, NEWLINE}

\* str(n) for n >= 0
RECURSIVE IntToStr(_)
IntToStr(n) ==
    IF n < 10 THEN <<Digits[n + 1]>>
    ELSE Append(IntToStr(n \div 10), Digits[(n % 10) + 1])

DigitValue(c) == (CHOOSE i \in 1..10 : Digits[i] = c) - 1

\* int(s) for a string of ASCII digits
RECURSIVE StrToInt(_)
StrToInt(s) ==
    IF s = <<>> THEN 0
    ELSE 10 * StrToInt(SubSeq(s, 1, Len(s) - 1)) + DigitValue(s[Len(s)])

\* str.isdigit(): non-empty, every character a (Unicode) digit
IsDigit(s) ==
    /\ s # <<>>
    /\ \A i \in 1..Len(s) : s[i] \in DigitChars \cup {SUPERSCRIPT_TWO}

\* every character is one int() can read
IsAsciiDigits(s) == \A i \in 1..Len(s) : s[i] \in DigitChars

LowerChar(c) ==
    CASE c = "E" -> "e" [] c = "Q" -> "q" [] c = "X" -> "x" [] c = "I" -> "i"
      [] c = "T" -> "t" [] c = "U" -> "u" [] c = "A" -> "a" [] OTHER -> c

\* str.lower()
Lower(s) == [i \in 1..Len(s) |-> LowerChar(s[i])]

\* '{s:<w}': pad with spaces on the right to w characters, never cut
PadRight(s, w) ==
    IF Len(s) >= w THEN s ELSE s \o [i \in 1..(w - Len(s)) |-> " "]

\* sub in s, for strings; re.findall(sub, s) non-empty, for a literal pattern
Contains(s, sub) ==
    \E i \in 0..(Len(s) - Len(sub)) : SubSeq(s, i + 1, i + Len(sub)) = sub

\* s.split(sep): the pieces between the separators, at least one piece
RECURSIVE Split(_, _)
Split(s, sep) ==
    IF \A i \in 1..Len(s) : s[i] # sep THEN <<s>>
    ELSE LET k == CHOOSE i \in 1..Len(s) :
                      s[i] = sep /\ \A j \in 1..(i - 1) : s[j] # sep
         IN  <<SubSeq(s, 1, k - 1)>> \o Split(SubSeq(s, k + 1, Len(s)), sep)

\* s.strip()
RECURSIVE Strip(_)
Strip(s) ==
    IF s = <<>> THEN s
    ELSE IF s[1] \in Whitespace THEN Strip(Tail(s))
    ELSE IF s[Len(s)] \in Whitespace THEN Strip(SubSeq(s, 1, Len(s) - 1))
    ELSE s

\* sep.join(parts)
RECURSIVE Join(_, _)
Join(parts, sep) ==
    IF parts = <<>> THEN <<>>
    ELSE IF Len(parts) = 1 THEN parts[1]
    ELSE parts[1] \o sep \o Join(Tail(parts), sep)

\* the number of occurrences of character c in s
Count(s, c) == Cardinality({i \in 1..Len(s) : s[i] = c})

(***************************************************************************)
(* Candidate rows: interactive_selection, sections 1 and 2.                *)
(***************************************************************************)
layout_mode(query_type) == IF query_type = "artist" THEN "simple" ELSE "detailed"

TwoDigits(n) == IF n < 10 THEN <<"0">> \o IntToStr(n) ELSE IntToStr(n)

\* orpheus.music_downloader.beauty_format_seconds: minutes and seconds, with
\* the hours in front, marked "h", from one hour on
beauty_format_seconds(seconds) ==
    LET h == (seconds \div 3600) % 24
        m == (seconds \div 60) % 60
        s == seconds % 60
        ms == TwoDigits(m) \o <<"m", ":">> \o TwoDigits(s) \o <<"s">>
    IN  IF h > 0 THEN TwoDigits(h) \o <<"h", ":">> \o ms ELSE ms

\* an optional number that Python takes as true: present and not 0
Truthy(opt) == opt # <<>> /\ opt[1] # 0

trunc_name(item) ==
    IF Len(item.name) > 38 THEN Append(SubSeq(item.name, 1, 37), ELLIPSIS)
    ELSE item.name

year_text(item) ==
    IF Truthy(item.year) THEN IntToStr(item.year[1]) ELSE <<"-", "-", "-", "-">>

full_dur(item) ==
    IF Truthy(item.duration) THEN beauty_format_seconds(item.duration[1])
    ELSE <<"-", "-", ":", "-", "-">>

short_dur(item) ==
    LET full == full_dur(item)
        parts == Split(full, ":")
    IN  IF Contains(full, <<"h">>)
        THEN IF Len(parts) >= 2 THEN parts[1] \o <<":">> \o parts[2] ELSE full
        ELSE full

full_qual(item) ==
    IF item.additional # <<>> THEN item.additional[1] ELSE <<"-", "-", "-", "-">>

short_qual(item) ==
    LET q == full_qual(item)
    IN  IF Contains(q, <<"D", "o", "l", "b", "y", " ", "A", "t", "m", "o", "s">>)
        THEN <<"D", "A">>
        ELSE IF Contains(q, <<"M", "a", "s", "t", "e", "r">>)
        THEN <<"M", "a", "s", "t">>
        ELSE IF Contains(q, <<"H", "i", "F", "i">>)
        THEN <<"H", "i", "F", "i">>
        ELSE SubSeq(q, 1, IF Len(q) < 6 THEN Len(q) ELSE 6)

visible(index, item, query_type) ==
    LET num == PadRight(Append(IntToStr(index), "."), 4)
    IN  IF layout_mode(query_type) = "detailed"
        THEN num \o <<" ">> \o PadRight(trunc_name(item), 40)
                 \o <<" ">> \o PadRight(year_text(item), 6)
                 \o <<" ">> \o PadRight(short_dur(item), 8)
                 \o <<" ">> \o PadRight(IF item.explicit THEN <<"E">> ELSE <<" ">>, 3)
                 \o <<" ">> \o short_qual(item)
        ELSE num \o <<" ">> \o item.name

full_artist(item) ==
    IF item.artists.is_list THEN Join(item.artists.list, <<",", " ">>)
    ELSE item.artists.text

hidden(item) ==
    item.name \o <<"|">> \o full_artist(item)
      \o <<"|">> \o (IF Truthy(item.year) THEN year_text(item) ELSE <<>>)
      \o <<"|">> \o (IF Truthy(item.duration) THEN full_dur(item) ELSE <<>>)
      \o <<"|">> \o (IF item.additional # <<>> THEN full_qual(item) ELSE <<>>)
      \o <<"|">> \o (IF item.explicit THEN <<"1">> ELSE <<"0">>)

\* the rows handed to the picker, one per item, numbered from 1
choices(items, query_type) ==
    [i \in 1..Len(items) |->
        visible(i, items[i], query_type) \o <<TAB>> \o hidden(items[i])]

(***************************************************************************)
(* The collaborators main consumes: the module registry, the search        *)
(* results a module returns, the command line.                             *)
(***************************************************************************)
\* orpheus.module_list
module_list == {"deezer", "tidal", "qobuz"}

\* the member names of DownloadTypeEnum
DownloadTypeEnum == {"track", "playlist", "artist", "album"}

\* orpheus.module_netloc_constants: pattern -> module, in either insertion
\* order; the patterns are literal
NetlocOrders ==
    { << [pattern |-> <<"deezer">>, module |-> "deezer"],
         [pattern |-> <<"tidal">>, module |-> "tidal"],
         [pattern |-> <<"qobuz">>, module |-> "qobuz"] >>,
      << [pattern |-> <<"tidal">>, module |-> "tidal"],
         [pattern |-> <<"qobuz">>, module |-> "qobuz"],
         [pattern |-> <<"deezer">>, module |-> "deezer"] >> }

\* orpheus.module_settings[name]: url_decoding and url_constants (key ->
\* media type, in insertion order; empty when the module sets none)
module_settings(name) ==
    CASE name = "deezer" -> [url_decoding |-> "auto", url_constants |-> <<>>]
      [] name = "tidal" ->
            [url_decoding |-> "auto",
             url_constants |-> << [key |-> <<"album">>, media_type |-> "album"],
                                  [key |-> <<"track">>, media_type |-> "track"] >>]
      [] OTHER -> [url_decoding |-> "manual", url_constants |-> <<>>]

\* the mapping main falls back to when a module sets no url_constants
DefaultUrlConstants ==
    << [key |-> <<"track">>, media_type |-> "track"],
       [key |-> <<"album">>, media_type |-> "album"],
       [key |-> <<"playlist">>, media_type |-> "playlist"],
       [key |-> <<"artist">>, media_type |-> "artist"] >>

MediaIdentification(media_type, media_id, extra_kwargs) ==
    [media_type |-> media_type, media_id |-> media_id, extra_kwargs |-> extra_kwargs]

\* what a module's custom_url_parse may hand back
CustomParseResults ==
    {MediaIdentification(t, <<"m">>, "{}") : t \in {"track", "album"}}

\* the SearchResult values a module's search may return
SampleResults ==
    { [result_id |-> <<"r", "1">>,
       name |-> [i \in 1..39 |-> "n"],
       artists |-> [is_list |-> TRUE, list |-> << <<"X">>, <<"Y">> >>, text |-> <<>>],
       year |-> <<1999>>, duration |-> <<3661>>, explicit |-> TRUE,
       additional |-> << <<"H", "i", "F", "i">> >>, extra_kwargs |-> "kw1"],
      [result_id |-> <<"r", "2">>,
       name |-> <<"A", "|", "B">>,
       artists |-> [is_list |-> FALSE, list |-> <<>>, text |-> <<"Z", TAB, "W">>],
       year |-> <<>>, duration |-> <<>>, explicit |-> FALSE,
       additional |-> <<>>, extra_kwargs |-> "kw2"] }

RECURSIVE SeqsUpTo(_, _)
SeqsUpTo(S, n) ==
    IF n = 0 THEN {<<>>}
    ELSE LET shorter == SeqsUpTo(S, n - 1)
         IN  shorter \cup {Append(q, e) : q \in shorter, e \in S}

\* module.search(query_type, query, limit=limit)
SearchReturns(limit) == SeqsUpTo(SampleResults, limit)

\* the words of a command line that starts with a mode word
ModeWords == {"settings", "sessions", "search", "luckysearch", "download"}
SecondWords == {"deezer", "DEEZER", "qobuz", "multi", "nope", "refresh"}
ThirdWords == {"track", "artist", "Album", "bogus", "test"}
MoreWords == {<<>>, <<"7">>, <<"7", "9">>}

WordLines ==
    {<<m>> : m \in ModeWords}
      \cup {<<m, a>> : m \in ModeWords, a \in SecondWords}
      \cup {<<m, a, b>> \o r : m \in ModeWords, a \in SecondWords,
                               b \in ThirdWords, r \in MoreWords}

\* str.lower() on a command-line word
lower_word(w) ==
    CASE w = "DEEZER" -> "deezer" [] w = "Album" -> "album" [] OTHER -> w

\* the links a run may be given: startswith('http'), and urlparse's netloc
\* and path
Netlocs ==
    { <<"deezer", ".", "com">>, <<"www", ".", "deezer", ".", "com">>,
      <<"tidal", ".", "com">>, <<"deezer", ".", "tidal", ".", "com">>,
      <<"play", ".", "qobuz", ".", "com">>, <<"example", ".", "com">> }

Paths ==
    { <<>>, <<"/", "xyz">>, <<"/", "album">>, <<"/", "album", "/", "7">>,
      <<"/", "track", "/", "9">>, <<"/", "track", "/", "album", "/", "7">>,
      <<"/", "xyz", "/", "7">>, <<"/", "album", "x", "/", "7">>,
      <<"/", "playlist", "/", "7">> }

Links ==
    {[http |-> TRUE, netloc |-> h, path |-> p] : h \in Netlocs, p \in Paths}
      \cup {[http |-> FALSE, netloc |-> <<>>, path |-> <<"7">>]}

\* the lines the user may type at the fallback prompt
SelectionInputs ==
    {IntToStr(k) : k \in 0..(MaxItems + 1)}
      \cup { <<"e">>, <<"E">>, <<"q">>, <<"Q">>, <<"x">>, <<"X">>,
             <<"e", "x", "i", "t">>, <<"E", "X", "I", "T">>, <<"E", "x", "i", "t">>,
             <<"q", "u", "i", "t">>, <<"Q", "U", "I", "T">>, <<"q", "U", "i", "T">> }
      \cup { <<>>, <<"a">>, <<"1", "a">>, <<"-", "1">>, <<" ", "1">>, <<"0", "1">>,
             <<"1", ".">>, <<"e", "x">>, <<SUPERSCRIPT_TWO>> }

(***************************************************************************)
(* The state of one run.                                                   *)
(***************************************************************************)
VARIABLES
    arg_kind,                 \* "none", "words", "links" or "file"
    args,                     \* args.arguments, when it starts with a mode word
    module_netloc_constants,  \* the registry's pattern -> module mapping
    pc,                       \* where the run is
    items,                    \* the search results
    query_type,               \* the media type searched for, "" when none
    picker,                   \* how the picker ended (optional)
    selection_input,          \* interactive_selection's selection_input
    line_read,                \* the line input() returned (optional)
    fallback_runs,            \* how often the fallback prompt has run
    selection,                \* the validated index (optional)
    link,                     \* the link of the latest loop iteration (optional)
    service_name,             \* the module that link's host resolved to
    resolved,                 \* the results appended so far, in input order
    media_to_download,        \* module -> sequence of MediaIdentification
    pipeline_calls,           \* the batches handed to orpheus_core_download
    printed,                  \* the messages printed
    outcome,                  \* how the run ended, "running" until then
    exit_status,              \* the process's exit status (optional)
    exit_from                 \* the place the run ended at

config == <<arg_kind, args, module_netloc_constants>>
selvars == <<items, query_type, picker, selection_input, line_read, fallback_runs, selection>>
urlvars == <<link, service_name, resolved>>
endvars == <<printed, outcome, exit_status, exit_from>>
vars == <<config, pc, selvars, urlvars, media_to_download, pipeline_calls, endvars>>

Init ==
    /\ \/ arg_kind = "none" /\ args = <<>>
       \/ arg_kind = "words" /\ args \in WordLines
       \/ arg_kind \in {"links", "file"} /\ args = <<>>
    /\ module_netloc_constants \in NetlocOrders
    /\ pc = "main"
    /\ items = <<>>
    /\ query_type = ""
    /\ picker = <<>>
    /\ selection_input = <<>>
    /\ line_read = <<>>
    /\ fallback_runs = 0
    /\ selection = <<>>
    /\ link = <<>>
    /\ service_name = <<>>
    /\ resolved = <<>>
    /\ media_to_download = <<>>
    /\ pipeline_calls = <<>>
    /\ printed = <<>>
    /\ outcome = "running"
    /\ exit_status = <<>>
    /\ exit_from = ""

\* the run ends here: with exit(), a return from main or an uncaught exception
Terminate(kind, status, message) ==
    /\ pc' = "exited"
    /\ outcome' = kind
    /\ exit_status' = <<status>>
    /\ exit_from' = pc
    /\ printed' = IF message = "" THEN printed ELSE Append(printed, message)

\* raise Exception(...): nothing catches it, the interpreter prints the
\* traceback and exits with status 1
Raise(kind) == Terminate(kind, 1, "traceback")

\* Exit with status 1
Exit_failure(kind, message) == Terminate(kind, 1, message)

\* exit(): status 0
Exit(kind, message) == Terminate(kind, 0, message)

\* return from main: status 0
Return == Terminate("Returned", 0, "")

orpheus_mode == lower_word(args[1])

(***************************************************************************)
(* main: no arguments, settings, sessions.                                 *)
(***************************************************************************)
\* no positional argument: the help text, then exit()
PrintHelp ==
    /\ pc = "main"
    /\ arg_kind = "none"
    /\ Exit("Help", "help")
    /\ UNCHANGED <<config, selvars, urlvars, media_to_download, pipeline_calls>>

\* how the settings branch ends; a missing word is an IndexError
settings_result ==
    IF Len(args) < 2 THEN "IndexError"
    ELSE LET setting == lower_word(args[2])
         IN  IF setting = "refresh" THEN "refreshed"
             ELSE IF setting \in {"core_update", "full_update", "module_install",
                                  "test_modules"}
             THEN "return"
             ELSE IF setting \in module_list
             THEN IF Len(args) < 3 THEN "IndexError"
                  ELSE IF lower_word(args[3]) \in {"update", "setup", "adjust_setting",
                                                   "test"}
                  THEN "return"
                  ELSE "UnknownSetting"
             ELSE "UnknownSetting"

Settings ==
    /\ pc = "main"
    /\ arg_kind = "words"
    /\ orpheus_mode = "settings"
    /\ CASE settings_result = "refreshed" -> Terminate("Returned", 0, "refreshed")
         [] settings_result = "return" -> Return
         [] OTHER -> Raise(settings_result)
    /\ UNCHANGED <<config, selvars, urlvars, media_to_download, pipeline_calls>>

\* how the sessions branch ends
sessions_result ==
    IF Len(args) < 2 THEN "IndexError"
    ELSE IF lower_word(args[2]) \in module_list
    THEN IF Len(args) < 3 THEN "IndexError"
         ELSE LET option == lower_word(args[3])
              IN  IF option \in {"add", "delete", "list"} THEN "return"
                  ELSE IF option = "test"
                  THEN IF Len(args) < 4 THEN "IndexError" ELSE "return"
                  ELSE "UnknownOption"
    ELSE "UnknownModule"

Sessions ==
    /\ pc = "main"
    /\ arg_kind = "words"
    /\ orpheus_mode = "sessions"
    /\ IF sessions_result = "return" THEN Return ELSE Raise(sessions_result)
    /\ UNCHANGED <<config, selvars, urlvars, media_to_download, pipeline_calls>>

(***************************************************************************)
(* main: search and luckysearch, up to the call of interactive_selection.  *)
(***************************************************************************)
\* known_module that takes the reserved name for a module too
known_module_or_multi(modulename) == modulename \in module_list \cup {"multi"}

\* modulename in orpheus.module_list
known_module(modulename) == modulename \in module_list

\* the batch of one identification for one module
single_batch(modulename, idents) == [m \in {modulename} |-> idents]

Search ==
    /\ pc = "main"
    /\ arg_kind = "words"
    /\ orpheus_mode \in {"search", "luckysearch"}
    /\ UNCHANGED <<config, picker, selection_input, line_read, fallback_runs, urlvars,
                   pipeline_calls>>
    /\ IF Len(args) <= 3
       THEN /\ Exit("Usage", "usage")
            /\ UNCHANGED <<items, query_type, selection, media_to_download>>
       ELSE LET modulename == lower_word(args[2])
                type_word == lower_word(args[3])
                lucky_mode == orpheus_mode = "luckysearch"
            IN  IF known_module(modulename)
                THEN IF type_word \notin DownloadTypeEnum
                     THEN /\ Raise("InvalidType")
                          /\ UNCHANGED <<items, query_type, selection, media_to_download>>
                     ELSE \E found \in SearchReturns(IF lucky_mode THEN 1 ELSE MaxItems) :
                            /\ items' = found
                            /\ query_type' = type_word
                            /\ IF Len(found) = 0
                               THEN /\ Raise("NoSearchResults")
                                    /\ UNCHANGED <<selection, media_to_download>>
                               ELSE IF lucky_mode
                               THEN /\ selection' = <<0>>
                                    /\ media_to_download' =
                                         single_batch(modulename,
                                            <<MediaIdentification(type_word,
                                                 found[1].result_id,
                                                 found[1].extra_kwargs)>>)
                                    /\ pc' = "handoff"
                                    /\ UNCHANGED endvars
                               ELSE /\ pc' = "picker"
                                    /\ UNCHANGED <<selection, media_to_download, endvars>>
                ELSE /\ IF modulename = "multi" THEN Return ELSE Raise("UnknownModule")
                     /\ UNCHANGED <<items, query_type, selection, media_to_download>>

(***************************************************************************)
(* interactive_selection, sections 3 to 5.                                 *)
(***************************************************************************)
\* the ways the picker path can end: fzf not installed, Popen or
\* communicate raising, or the process exiting with a status and an output
PickerOutcomes(n) ==
    { [status |-> "unavailable", returncode |-> 0, output |-> "empty", row |-> 0],
      [status |-> "launch_failure", returncode |-> 0, output |-> "empty", row |-> 0],
      [status |-> "exited", returncode |-> 130, output |-> "empty", row |-> 0],
      [status |-> "exited", returncode |-> 130, output |-> "row", row |-> 1],
      [status |-> "exited", returncode |-> 0, output |-> "empty", row |-> 0],
      [status |-> "exited", returncode |-> 0, output |-> "blank", row |-> 0] }
      \cup {[status |-> "exited", returncode |-> 0, output |-> "row", row |-> k] :
              k \in 1..n}

\* the bytes the picker wrote: nothing, an empty line, or the chosen row
picker_stdout(p, rows) ==
    CASE p.output = "empty" -> <<>>
      [] p.output = "blank" -> <<NEWLINE>>
      [] OTHER -> Append(rows[p.row], NEWLINE)

\* picker_selection that does not look at the exit status
picker_selection_any_status(p, rows) ==
    IF p.status = "exited" /\ picker_stdout(p, rows) # <<>>
    THEN LET result == Strip(picker_stdout(p, rows))
         IN  IF result # <<>> THEN <<Split(result, ".")[1]>> ELSE <<>>
    ELSE <<>>

\* selection_input after section 3
picker_selection(p, rows) ==
    IF p.status = "exited" /\ p.returncode = 0 /\ picker_stdout(p, rows) # <<>>
    THEN LET result == Strip(picker_stdout(p, rows))
         IN  IF result # <<>> THEN <<Split(result, ".")[1]>> ELSE <<>>
    ELSE <<>>

\* not selection_input: None or the empty string
use_fallback(sel) == sel = <<>> \/ sel[1] = <<>>

RunPicker ==
    /\ pc = "picker"
    /\ \E p \in PickerOutcomes(Len(items)) :
         /\ picker' = <<p>>
         /\ selection_input' = picker_selection(p, choices(items, query_type))
    /\ pc' = IF use_fallback(selection_input') THEN "fallback" ELSE "validate"
    /\ UNCHANGED <<config, items, query_type, line_read, fallback_runs, selection,
                   urlvars, media_to_download, pipeline_calls, endvars>>

\* the header and the visible halves are printed, then input() reads a
\* line or meets the end of the input
Fallback ==
    /\ pc = "fallback"
    /\ fallback_runs' = fallback_runs + 1
    /\ \/ \E typed \in SelectionInputs :
            /\ line_read' = <<typed>>
            /\ selection_input' = <<typed>>
            /\ pc' = "validate"
            /\ printed' = Append(printed, "menu")
            /\ UNCHANGED <<outcome, exit_status, exit_from>>
       \/ /\ pc' = "exited"
          /\ outcome' = "EOFError"
          /\ exit_status' = <<1>>
          /\ exit_from' = pc
          /\ printed' = printed \o <<"menu", "traceback">>
          /\ UNCHANGED <<line_read, selection_input>>
    /\ UNCHANGED <<config, items, query_type, picker, selection, urlvars,
                   media_to_download, pipeline_calls>>

QuitAliases == { <<"e">>, <<"q">>, <<"x">>, <<"e", "x", "i", "t">>,
                 <<"q", "u", "i", "t">> }

\* validate without the step from the 1-based number to the 0-based index
validate_no_offset(text, count) ==
    IF Lower(text) \in QuitAliases THEN [kind |-> "quit", index |-> 0]
    ELSE IF ~IsDigit(text) THEN [kind |-> "InvalidInput", index |-> 0]
    ELSE IF ~IsAsciiDigits(text) THEN [kind |-> "InvalidInput", index |-> 0]
    ELSE LET sel == StrToInt(text)
         IN  IF sel < 0 \/ sel >= count THEN [kind |-> "InvalidInput", index |-> 0]
             ELSE [kind |-> "index", index |-> sel]

\* section 5: the selection text against the number of candidates
validate(text, count) ==
    IF Lower(text) \in QuitAliases THEN [kind |-> "quit", index |-> 0]
    ELSE IF ~IsDigit(text) THEN [kind |-> "InvalidInput", index |-> 0]
    ELSE IF ~IsAsciiDigits(text) THEN [kind |-> "InvalidInput", index |-> 0]
    ELSE LET sel == StrToInt(text) - 1
         IN  IF sel < 0 \/ sel >= count THEN [kind |-> "InvalidInput", index |-> 0]
             ELSE [kind |-> "index", index |-> sel]

\* section 5, and main's use of the index returned
ProcessResult ==
    /\ pc = "validate"
    /\ LET v == validate(selection_input[1], Len(items))
       IN  CASE v.kind = "quit" ->
                  /\ Exit("Quit", "")
                  /\ UNCHANGED <<selection, media_to_download>>
             [] v.kind = "InvalidInput" ->
                  /\ Raise("InvalidInput")
                  /\ UNCHANGED <<selection, media_to_download>>
             [] OTHER ->
                  /\ selection' = <<v.index>>
                  /\ media_to_download' =
                       single_batch(lower_word(args[2]),
                          <<MediaIdentification(query_type,
                               items[v.index + 1].result_id,
                               items[v.index + 1].extra_kwargs)>>)
                  /\ pc' = "handoff"
                  /\ UNCHANGED endvars
    /\ UNCHANGED <<config, items, query_type, picker, selection_input, line_read,
                   fallback_runs, urlvars, pipeline_calls>>

(***************************************************************************)
(* main: download.                                                         *)
(***************************************************************************)
Download ==
    /\ pc = "main"
    /\ arg_kind = "words"
    /\ orpheus_mode = "download"
    /\ UNCHANGED <<config, selvars, urlvars, pipeline_calls>>
    /\ IF Len(args) <= 3
       THEN /\ Exit("Usage", "usage")
            /\ UNCHANGED media_to_download
       ELSE LET modulename == lower_word(args[2])
                type_word == lower_word(args[3])
            IN  IF known_module(modulename)
                THEN IF type_word \notin DownloadTypeEnum
                     THEN /\ Raise("InvalidType")
                          /\ UNCHANGED media_to_download
                     ELSE /\ media_to_download' =
                               single_batch(modulename,
                                  [i \in 1..(Len(args) - 3) |->
                                      MediaIdentification(type_word, <<args[i + 3]>>, "{}")])
                          /\ pc' = "handoff"
                          /\ UNCHANGED endvars
                ELSE /\ Raise("UnknownModule")
                     /\ UNCHANGED media_to_download

(***************************************************************************)
(* main: links, one loop iteration per link.                               *)
(***************************************************************************)
\* service_name after the first n patterns have been tried: every match
\* overwrites the one before
RECURSIVE service_after(_, _, _)
service_after(registry, netloc, n) ==
    IF n = 0 THEN <<>>
    ELSE IF Contains(netloc, registry[n].pattern) THEN <<registry[n].module>>
    ELSE service_after(registry, netloc, n - 1)

\* resolve_service that stops at the first match
resolve_service_first(registry, netloc) ==
    LET matching == {i \in 1..Len(registry) : Contains(netloc, registry[i].pattern)}
    IN  IF matching = {} THEN <<>>
        ELSE <<registry[CHOOSE i \in matching : \A j \in matching : i <= j].module>>

\* the module a host is routed to (optional)
resolve_service(registry, netloc) == service_after(registry, netloc, Len(registry))

\* the rules that decide the media type: the module's own, or the default
effective_url_constants(name) ==
    IF module_settings(name).url_constants = <<>> THEN DefaultUrlConstants
    ELSE module_settings(name).url_constants

\* url_check in components
InComponents(key, components) == \E j \in 1..Len(components) : components[j] = key

\* the media types whose key is a path segment, in the mapping's order
type_matches(url_constants, components) ==
    LET Hit(rule) == InComponents(rule.key, components)
        hits == SelectSeq(url_constants, Hit)
    IN  [i \in 1..Len(hits) |-> hits[i].media_type]

\* resolved_type that takes the first match
resolved_type_first(matches) == matches[1]

\* type_matches[-1]
resolved_type(matches) == matches[Len(matches)]

\* too_short with the limit one lower
too_short_by_one(components) == Len(components) <= 1

\* len(components) <= 2
too_short(components) == Len(components) <= 2

\* the module decodes its own URLs
is_manual(name) == module_settings(name).url_decoding = "manual"

\* if service_name not in media_to_download: media_to_download[service_name] = []
with_key(batch, name) ==
    IF name \in DOMAIN batch THEN batch
    ELSE [m \in (DOMAIN batch) \cup {name} |-> IF m = name THEN <<>> ELSE batch[m]]

\* append_ident that puts the identification in front
prepend_ident(batch, name, ident) == [batch EXCEPT ![name] = <<ident>> \o @]

\* media_to_download[service_name].append(ident)
append_ident(batch, name, ident) == [batch EXCEPT ![name] = Append(@, ident)]

LinksBegin ==
    /\ pc = "main"
    /\ arg_kind \in {"links", "file"}
    /\ media_to_download' = <<>>
    /\ pc' = "links"
    /\ UNCHANGED <<config, selvars, urlvars, pipeline_calls, endvars>>

\* one iteration succeeded: the identification is in the batch
Resolved(batch, name, ident) ==
    /\ media_to_download' = append_ident(batch, name, ident)
    /\ resolved' = Append(resolved, [module |-> name, ident |-> ident])
    /\ pc' = "links"
    /\ UNCHANGED endvars

ResolveLink ==
    /\ pc = "links"
    /\ Len(resolved) < MaxLinks
    /\ UNCHANGED <<config, selvars, pipeline_calls>>
    /\ \E l \in Links :
         /\ link' = <<l>>
         /\ IF ~l.http
            THEN /\ Raise("InvalidArgument")
                 /\ UNCHANGED <<service_name, resolved, media_to_download>>
            ELSE LET components == Split(l.path, "/")
                     service == resolve_service(module_netloc_constants, l.netloc)
                 IN  /\ service_name' = service
                     /\ IF service = <<>>
                        THEN /\ Raise("UnroutableURL")
                             /\ UNCHANGED <<resolved, media_to_download>>
                        ELSE LET name == service[1]
                                 batch == with_key(media_to_download, name)
                                 matches == type_matches(effective_url_constants(name),
                                                         components)
                             IN  IF is_manual(name)
                                 THEN \/ \E ident \in CustomParseResults :
                                           Resolved(batch, name, ident)
                                      \/ /\ Raise("ModuleError")
                                         /\ media_to_download' = batch
                                         /\ UNCHANGED resolved
                                 ELSE IF too_short(components)
                                 THEN /\ Exit("MalformedURL", "Invalid URL")
                                      /\ media_to_download' = batch
                                      /\ UNCHANGED resolved
                                 ELSE IF matches = <<>>
                                 THEN /\ Exit("UnroutableURL", "Invalid URL")
                                      /\ media_to_download' = batch
                                      /\ UNCHANGED resolved
                                 ELSE Resolved(batch, name,
                                         MediaIdentification(resolved_type(matches),
                                            components[Len(components)], "{}"))

\* the loop has gone through every link; a command line holds at least
\* one, a file may hold none
LinksEnd ==
    /\ pc = "links"
    /\ arg_kind = "file" \/ Len(resolved) >= 1
    /\ pc' = "handoff"
    /\ UNCHANGED <<config, selvars, urlvars, media_to_download, pipeline_calls, endvars>>

(***************************************************************************)
(* main: the hand-off to the download pipeline, and the top level.         *)
(***************************************************************************)
Handoff ==
    /\ pc = "handoff"
    /\ printed' = IF media_to_download = <<>> THEN Append(printed, "No links given")
                  ELSE printed
    /\ pipeline_calls' = Append(pipeline_calls, media_to_download)
    /\ pc' = "downloading"
    /\ UNCHANGED <<config, selvars, urlvars, media_to_download, outcome, exit_status,
                   exit_from>>

\* orpheus_core_download returns, and main with it
PipelineReturns ==
    /\ pc = "downloading"
    /\ Terminate("Done", 0, "")
    /\ UNCHANGED <<config, selvars, urlvars, media_to_download, pipeline_calls>>

\* except KeyboardInterrupt: print, exit()
KeyboardInterrupt ==
    /\ pc # "exited"
    /\ Exit("Interrupted", "^C pressed - abort")
    /\ UNCHANGED <<config, selvars, urlvars, media_to_download, pipeline_calls>>

Next ==
    \/ PrintHelp
    \/ Settings
    \/ Sessions
    \/ Search
    \/ RunPicker
    \/ Fallback
    \/ ProcessResult
    \/ Download
    \/ LinksBegin
    \/ ResolveLink
    \/ LinksEnd
    \/ Handoff
    \/ PipelineReturns
    \/ KeyboardInterrupt

Spec == Init /\ [][Next]_vars

(***************************************************************************)
(* What the claims speak of.                                               *)
(***************************************************************************)
Max(S) == CHOOSE x \in S : \A y \in S : y <= x

\* section 5 of interactive_selection has run on selection_input
Validated ==
    /\ selection_input # <<>>
    /\ pc \in {"handoff", "downloading", "exited"}
    /\ exit_from \notin {"picker", "fallback"}
    /\ ~(exit_from = "validate" /\ outcome = "Interrupted")

\* the quit aliases, in lower, upper and mixed case
QuitInputs ==
    { <<"e">>, <<"E">>, <<"q">>, <<"Q">>, <<"x">>, <<"X">>,
      <<"e", "x", "i", "t">>, <<"E", "X", "I", "T">>, <<"E", "x", "i", "t">>,
      <<"q", "u", "i", "t">>, <<"Q", "U", "I", "T">>, <<"q", "U", "i", "T">> }

\* empty, or with a character that is no decimal digit
NonNumeric(s) == s = <<>> \/ \E i \in 1..Len(s) : s[i] \notin DigitChars

\* this step is one iteration of the loop over the links
LinkStep ==
    /\ pc = "links"
    /\ link' # <<>>
    /\ \/ Len(resolved') = Len(resolved) + 1
       \/ pc' = "exited" /\ outcome' # "Interrupted"

\* this step appends no identification to any module's sequence, and hands
\* nothing to the pipeline
NothingAdded ==
    /\ \A m \in DOMAIN media_to_download' :
          media_to_download'[m] =
             IF m \in DOMAIN media_to_download THEN media_to_download[m] ELSE <<>>
    /\ resolved' = resolved
    /\ pipeline_calls' = <<>>

\* the pieces of the path of the link this step works on
NextComponents == Split(link'[1].path, "/")

\* C1: once the selection text has been validated against N candidates:
\* the texts "1" to str(N) give the indices 0 to N-1; "0" and str(N+1) fail
\* with InvalidInput; a non-numeric text that is no quit alias fails with
\* InvalidInput; a quit alias in any case ends the run with exit(), not
\* with InvalidInput.
C1_SelectionValidator ==
    Validated =>
        LET s == selection_input[1]
            N == Len(items)
        IN  /\ N >= 1
            /\ \A k \in 1..N :
                  s = IntToStr(k) =>
                     /\ selection = <<k - 1>>
                     /\ outcome \notin {"InvalidInput", "Quit"}
            /\ (s = <<"0">> \/ s = IntToStr(N + 1)) =>
                  /\ outcome = "InvalidInput"
                  /\ exit_status = <<1>>
                  /\ selection = <<>>
            /\ (NonNumeric(s) /\ s \notin QuitInputs) =>
                  /\ outcome = "InvalidInput"
                  /\ exit_status = <<1>>
                  /\ selection = <<>>
            /\ s \in QuitInputs =>
                  /\ outcome = "Quit"
                  /\ exit_status = <<0>>
                  /\ selection = <<>>

\* C1's case: the last of at least two candidates was chosen by its number
C1_Witness ==
    /\ Validated
    /\ Len(items) >= 2
    /\ line_read = <<IntToStr(Len(items))>>
    /\ selection = <<Len(items) - 1>>

\* C2, as claimed: a link whose host resolves to a module, automatic or
\* manual, and whose path has fewer than 3 pieces fails with MalformedURL,
\* and nothing is added to the batch.
C2_GuardAnyDecoding ==
    [][(/\ LinkStep
        /\ link'[1].http
        /\ service_name' # <<>>
        /\ Len(NextComponents) < 3)
       => (outcome' = "MalformedURL" /\ pc' = "exited" /\ NothingAdded)]_vars

\* C2, amended: a link whose host resolves to a module with automatic URL
\* decoding and whose path has fewer than 3 pieces fails with MalformedURL,
\* and nothing is added to the batch.
C2_GuardAutomatic ==
    [][(/\ LinkStep
        /\ link'[1].http
        /\ service_name' # <<>>
        /\ module_settings(service_name'[1]).url_decoding = "auto"
        /\ Len(NextComponents) < 3)
       => (outcome' = "MalformedURL" /\ pc' = "exited" /\ NothingAdded)]_vars

\* C2's case: after one link resolved, a link of two pieces for an
\* automatic module ended the run
C2_Witness ==
    /\ link # <<>>
    /\ link[1].http
    /\ service_name = <<"deezer">>
    /\ Len(Split(link[1].path, "/")) = 2
    /\ Len(resolved) >= 1
    /\ outcome = "MalformedURL"

\* C3, as claimed: a run ends with status 0 only after the help or usage
\* text, a user abort or normal completion; InvalidInput, UnroutableURL,
\* MalformedURL, UnknownModule and NoSearchResults end it with a printed
\* message and a status other than 0.
C3_ExitStatus ==
    pc = "exited" =>
        /\ exit_status = <<0>> =>
              outcome \in {"Help", "Usage", "Quit", "Interrupted", "Done", "Returned"}
        /\ outcome \in {"InvalidInput", "UnroutableURL", "MalformedURL",
                        "UnknownModule", "NoSearchResults"} =>
              (exit_status # <<0>> /\ printed # <<>>)

\* C4: a quit alias at the selection step, or an interrupt before the
\* hand-off, ends the run at once with status 0, and the pipeline is not
\* called then or later.
C4_UserAbort ==
    /\ (Validated /\ selection_input[1] \in QuitInputs) =>
          /\ pc = "exited"
          /\ exit_from = "validate"
          /\ exit_status = <<0>>
          /\ media_to_download = <<>>
          /\ pipeline_calls = <<>>
    /\ (outcome = "Interrupted" /\ exit_from # "downloading") =>
          /\ pc = "exited"
          /\ exit_status = <<0>>
          /\ pipeline_calls = <<>>

\* C4's case: the interrupt came when two links had already been resolved
C4_Witness ==
    /\ outcome = "Interrupted"
    /\ exit_from = "links"
    /\ Len(resolved) = 2
    /\ media_to_download # <<>>
    /\ pipeline_calls = <<>>

\* C5: the host of a link is routed to the module of the last pattern, in
\* the registry's order, that matches it; when no pattern matches, the step
\* fails with UnroutableURL and adds nothing to the batch.
C5_LastPatternWins ==
    [][(LinkStep /\ link'[1].http) =>
         LET registry == module_netloc_constants
             matching == {i \in 1..Len(registry) :
                            Contains(link'[1].netloc, registry[i].pattern)}
         IN  IF matching = {}
             THEN /\ outcome' = "UnroutableURL"
                  /\ pc' = "exited"
                  /\ media_to_download' = media_to_download
                  /\ NothingAdded
             ELSE LET routed == registry[Max(matching)].module
                  IN  /\ service_name' = <<routed>>
                      /\ routed \in DOMAIN media_to_download'
                      /\ Len(resolved') = Len(resolved) + 1 =>
                            /\ resolved'[Len(resolved')].module = routed
                            /\ Len(media_to_download'[routed]) >= 1
                            /\ media_to_download'[routed][Len(media_to_download'[routed])]
                                  = resolved'[Len(resolved')].ident]_vars

\* C5's case: a host two patterns match was routed to the later one
C5_Witness ==
    /\ link # <<>>
    /\ link[1].netloc = <<"deezer", ".", "tidal", ".", "com">>
    /\ module_netloc_constants[1].module = "deezer"
    /\ Len(resolved) >= 1
    /\ resolved[Len(resolved)].module = "tidal"

\* C6: for a link that reaches the automatic resolution (host routed to a
\* module with automatic decoding, path of at least 3 pieces): the rules
\* are the module's own when it has any and the four default ones when it
\* has none; the type is the one of the last rule, in the mapping's order,
\* whose key equals a piece of the path, the id is the last piece; when no
\* key equals a piece, the step fails with UnroutableURL.
C6_AutomaticResolution ==
    [][(/\ LinkStep
        /\ link'[1].http
        /\ service_name' # <<>>
        /\ module_settings(service_name'[1]).url_decoding = "auto"
        /\ Len(NextComponents) >= 3)
       => LET name == service_name'[1]
              own == module_settings(name).url_constants
              rules == IF own # <<>> THEN own ELSE DefaultUrlConstants
              keyed == {i \in 1..Len(rules) :
                          \E j \in 1..Len(NextComponents) :
                             NextComponents[j] = rules[i].key}
          IN  IF keyed = {}
              THEN /\ outcome' = "UnroutableURL"
                   /\ pc' = "exited"
                   /\ NothingAdded
              ELSE LET ident == [media_type |-> rules[Max(keyed)].media_type,
                                 media_id |-> NextComponents[Len(NextComponents)],
                                 extra_kwargs |-> "{}"]
                   IN  /\ resolved' = Append(resolved, [module |-> name, ident |-> ident])
                       /\ media_to_download'[name][Len(media_to_download'[name])] = ident
                       /\ pc' = "links"]_vars

\* C6's case: a path with the keys track and album, in that order, was
\* resolved for the module whose own rules end with track
C6_Witness ==
    /\ link # <<>>
    /\ link[1].path = <<"/", "track", "/", "album", "/", "7">>
    /\ service_name = <<"tidal">>
    /\ Len(resolved) >= 1
    /\ resolved[Len(resolved)] =
          [module |-> "tidal",
           ident |-> [media_type |-> "track", media_id |-> <<"7">>, extra_kwargs |-> "{}"]]

\* the identifications resolved for module m, in input order
RECURSIVE IdentsFor(_, _)
IdentsFor(history, m) ==
    IF history = <<>> THEN <<>>
    ELSE LET before == IdentsFor(SubSeq(history, 1, Len(history) - 1), m)
             last == history[Len(history)]
         IN  IF last.module = m THEN Append(before, last.ident) ELSE before

\* C7: the batch handed to the pipeline after the links have all resolved
\* has exactly the modules they resolved to as keys, each with its
\* identifications in input order; with no link at all the batch is empty,
\* and the pipeline is called with it all the same, and returns.
C7_BatchOrder ==
    /\ (arg_kind \in {"links", "file"} /\ pipeline_calls # <<>>) =>
          /\ Len(pipeline_calls) = 1
          /\ DOMAIN pipeline_calls[1] = {resolved[i].module : i \in 1..Len(resolved)}
          /\ \A m \in DOMAIN pipeline_calls[1] :
                pipeline_calls[1][m] = IdentsFor(resolved, m)
    /\ (arg_kind = "file" /\ resolved = <<>> /\ pc = "links") => ENABLED LinksEnd
    /\ (arg_kind \in {"links", "file"} /\ pc = "handoff") =>
          (outcome = "running" /\ ENABLED Handoff)
    /\ (arg_kind = "file" /\ resolved = <<>> /\ pc = "downloading") =>
          /\ pipeline_calls = << <<>> >>
          /\ outcome = "running"
          /\ ENABLED PipelineReturns
    /\ (arg_kind = "file" /\ resolved = <<>> /\ outcome = "Done") =>
          (pipeline_calls = << <<>> >> /\ exit_status = <<0>>)

\* C7's case: three links, the first and third for one module and the
\* second for another, were handed over
C7_Witness ==
    /\ Len(resolved) = 3
    /\ resolved[1].module = resolved[3].module
    /\ resolved[1].module # resolved[2].module
    /\ resolved[1].ident # resolved[3].ident
    /\ pipeline_calls # <<>>

\* the picker was not there, could not be started, exited with a status
\* other than 0, or wrote no row
PickerFailed(p) ==
    \/ p.status \in {"unavailable", "launch_failure"}
    \/ p.returncode # 0
    \/ p.output \in {"empty", "blank"}

\* C8: after a failed picker no error is raised for that alone: the
\* fallback prompt comes next, runs once, and the line it reads is the
\* selection text; after a picker that exited with 0 and a chosen row the
\* prompt does not run and the selection text is the row's number.
C8_PickerFallback ==
    picker # <<>> =>
        IF PickerFailed(picker[1])
        THEN \/ /\ pc = "fallback"
                /\ outcome = "running"
                /\ fallback_runs = 0
             \/ /\ outcome = "Interrupted"
                /\ exit_from = "fallback"
                /\ fallback_runs = 0
             \/ /\ fallback_runs = 1
                /\ pc # "fallback"
                /\ \/ line_read = <<>> /\ outcome = "EOFError"
                   \/ line_read # <<>> /\ selection_input = line_read
        ELSE /\ fallback_runs = 0
             /\ line_read = <<>>
             /\ pc # "fallback"
             /\ selection_input = <<IntToStr(picker[1].row)>>

\* C8's case: the picker exited with 130 after writing a row, and the
\* choice typed at the prompt was accepted
C8_Witness ==
    /\ picker # <<>>
    /\ picker[1].returncode = 130
    /\ picker[1].output = "row"
    /\ fallback_runs = 1
    /\ line_read = << <<"2">> >>
    /\ selection = <<1>>
    /\ pc = "handoff"

\* main has gone past the search or download branch's checks
PastDispatch ==
    /\ arg_kind = "words"
    /\ orpheus_mode \in {"search", "luckysearch", "download"}
    /\ pc # "main"
    /\ ~(exit_from = "main" /\ outcome = "Interrupted")

\* C9, as claimed (for a command line of more than three arguments): in
\* search and download mode a module name that is not in the registry ends
\* the run with UnknownModule, without a call of the pipeline; a known module whose search finds nothing ends it with
\* NoSearchResults, before any selection step.
C9_UnknownModule ==
    (PastDispatch /\ Len(args) > 3) =>
        /\ lower_word(args[2]) \notin module_list =>
              /\ outcome = "UnknownModule"
              /\ exit_status = <<1>>
              /\ pipeline_calls = <<>>
        /\ (/\ lower_word(args[2]) \in module_list
            /\ orpheus_mode # "download"
            /\ query_type # ""
            /\ items = <<>>) =>
              /\ outcome = "NoSearchResults"
              /\ picker = <<>>
              /\ fallback_runs = 0

\* C9, amended: with more than three arguments, a lower-cased module name
\* that is not in the registry ends the run with UnknownModule, without a
\* call of the pipeline, unless the mode is search or luckysearch and the
\* name is multi, which returns with status 0 and no call of the pipeline;
\* with three arguments or fewer the usage text is printed and the run
\* ends with status 0; a known module whose search finds nothing ends the
\* run with NoSearchResults, before any selection step.
C9_UnknownModuleAmended ==
    PastDispatch =>
        IF Len(args) <= 3
        THEN outcome = "Usage" /\ exit_status = <<0>> /\ pipeline_calls = <<>>
        ELSE LET name == lower_word(args[2])
                 reserved == orpheus_mode # "download" /\ name = "multi"
             IN  /\ (name \notin module_list /\ ~reserved) =>
                       /\ outcome = "UnknownModule"
                       /\ exit_status = <<1>>
                       /\ printed = <<"traceback">>
                       /\ pipeline_calls = <<>>
                 /\ (name \notin module_list /\ reserved) =>
                       /\ outcome = "Returned"
                       /\ exit_status = <<0>>
                       /\ pipeline_calls = <<>>
                 /\ (/\ name \in module_list
                     /\ orpheus_mode # "download"
                     /\ query_type # ""
                     /\ items = <<>>) =>
                       /\ outcome = "NoSearchResults"
                       /\ exit_status = <<1>>
                       /\ picker = <<>>
                       /\ fallback_runs = 0
                       /\ selection = <<>>
                       /\ pipeline_calls = <<>>

\* C9's case: a download for a module the registry does not have
C9_Witness ==
    /\ PastDispatch
    /\ Len(args) = 5
    /\ orpheus_mode = "download"
    /\ args[2] = "nope"
    /\ outcome = "UnknownModule"

\* C10, as claimed: whatever the fields hold, there is one row per search
\* result, in input order, and each row has exactly one tab, a non-empty
\* visible half before it and a payload with exactly 5 pipes after it.
C10_RowShape ==
    items # <<>> =>
        LET rows == choices(items, query_type)
        IN  /\ Len(rows) = Len(items)
            /\ \A i \in 1..Len(rows) :
                  /\ Count(rows[i], TAB) = 1
                  /\ Split(rows[i], TAB)[1] # <<>>
                  /\ Split(rows[i], ".")[1] = IntToStr(i)
                  /\ Count(Split(rows[i], TAB)[Len(Split(rows[i], TAB))], "|") = 5

=============================================================================
